---- MODULE Spec2Model ----
(***************************************************************************)
(* The publish/subscribe Signal (pyprland/utils/signals.py) and the event  *)
(* dispatcher Instance.watch (hyprpy/components/instances.py).             *)
(*                                                                         *)
(* Text is a sequence of tokens.  A token is one character (">", ",",      *)
(* "\n", "-", a digit) or a word holding none of these characters, so the  *)
(* splits and the integer parse below work position by position as         *)
(* Python's str.split and int do.                                          *)
(***************************************************************************)
EXTENDS Integers, Sequences, FiniteSets, TLC

VARIABLES
    observers,   \* Signal._observers of each signal of the Instance
    em,          \* the frame of the running (or last) Signal.emit call; its
                 \* field raised is the position of the first observer that
                 \* raised (0: none has)
    calls,       \* the observer invocations made by that emit, in order
    hist,        \* history: the connect/disconnect calls that took effect
    last,        \* history: the last connect/disconnect call and its outcome
    midOps,      \* history: the connects/disconnects that took effect since
                 \*          the current emit (SpecSignal) or read (Spec) began
    pc,          \* where Instance.watch stands
    data,        \* watch: the text returned by the last event_socket.read()
    lines,       \* _handle_socket_data: the lines still to be handled
    line,        \* _handle_socket_data: the line of the current iteration
    lineNo,      \* history: the index of that line among the lines of data
    emitted,     \* history: the emits started for the lines of data
    err,         \* the exception propagating out of watch ("none": none)
    closeCount,  \* history: the number of event_socket.close() calls
    lastChan,    \* history: the last event_socket operation called
    peer,        \* the compositor's end of the event connection
    cut,         \* the event line the last read ended in the middle of: rest is
                 \* the part still to come, resumed tells that the last read
                 \* began with such a rest
    stop,        \* the caller of watch has asked for watch to end
    requests,    \* the requests sent on the command socket, in order
    dlog,        \* history: the dispatch calls made, with their outcomes
    ready        \* the event socket has data that watch has not been woken for

cmdVars == <<requests, dlog>>

vars == <<observers, em, calls, hist, last, midOps, pc, data, lines, line,
          lineNo, emitted, err, closeCount, lastChan, peer, cut, stop, cmdVars, ready>>

watchVars == <<pc, data, lines, line, lineNo, emitted, err, closeCount, lastChan,
               peer, cut, stop, cmdVars, ready>>

(***************************************************************************)
(* Bounds.                                                                 *)
(***************************************************************************)
MaxOps == 4     \* SpecSignal: connect/disconnect calls that take effect
MaxRegs == 2    \* Spec: observers registered over all signals at a time
MaxMidOps == 1  \* Spec: connects/disconnects taking effect while one read is handled
MaxLines == 2   \* Spec: event lines in one read
MaxCalls == 2   \* SpecDispatch: dispatch calls

(***************************************************************************)
(* Callbacks, signals, values.                                             *)
(***************************************************************************)
Callbacks == {"f", "g"}

\* Objects that connect must refuse: 5 is no callable, lambda: None has no
\* first parameter sender, lambda sender: None takes no keyword arguments.
BadCallbacks == {"notCallable", "noSender", "noKwargs"}
IsCallable(cb) == cb # "notCallable"
HasFirstParamSender(cb) == cb \in Callbacks \cup {"noKwargs"}
AcceptsKwargs(cb) == cb \in Callbacks \cup {"noSender"}

\* Instance.__init__: the six signals the dispatcher routes to.
Signals == {"signal_workspace_created", "signal_workspace_destroyed",
            "signal_active_workspace_changed", "signal_window_created",
            "signal_window_destroyed", "signal_active_window_changed"}

\* Signal.__init__: self._sender = sender; every signal is built with the Instance.
Sender(s) == "Instance"

\* Variant: closewindow is bound to the signal of openwindow.
signal_for_eventShared ==
    [openwindow       |-> "signal_window_created",
     closewindow      |-> "signal_window_created",
     activewindowv2   |-> "signal_active_window_changed",
     createworkspace  |-> "signal_workspace_created",
     destroyworkspace |-> "signal_workspace_destroyed",
     workspace        |-> "signal_active_workspace_changed"]

\* watch: signal_for_event
signal_for_event ==
    [openwindow       |-> "signal_window_created",
     closewindow      |-> "signal_window_destroyed",
     activewindowv2   |-> "signal_active_window_changed",
     createworkspace  |-> "signal_workspace_created",
     destroyworkspace |-> "signal_workspace_destroyed",
     workspace        |-> "signal_active_workspace_changed"]

\* Python values passed as signal data: a str, an int or None.
StrVal(s) == [t |-> "str", i |-> 0, s |-> s]
IntVal(n) == [t |-> "int", i |-> n, s |-> <<>>]
NoneVal == [t |-> "none", i |-> 0, s |-> <<>>]

\* The keyword arguments of one emit: one named field.
Kw(k, v) == [key |-> k, val |-> v]
NoKw == Kw("", NoneVal)

\* The field bags the API user emits in SpecSignal.
FieldBags == {Kw("info", StrVal(<<"Action performed!">>)), Kw("count", IntVal(7))}

NoFrame == [state |-> "none", caller |-> "none", sig |-> "", kw |-> NoKw,
            idx |-> 0, start |-> <<>>, raised |-> 0]
NoLast == [op |-> "none", cb |-> "", err |-> "none", before |-> <<>>]

(***************************************************************************)
(* Signal: the list operations.                                            *)
(***************************************************************************)
FirstIndex(obs, cb) ==
    IF \E i \in 1..Len(obs) : obs[i] = cb
    THEN CHOOSE i \in 1..Len(obs) : obs[i] = cb /\ \A j \in 1..(i-1) : obs[j] # cb
    ELSE 0

\* Variant: the callback is put in front of the list.
ConnectListPrepend(obs, cb) == <<cb>> \o obs

\* Variant: a callback already in the list is not added again.
ConnectListDedup(obs, cb) == IF FirstIndex(obs, cb) # 0 THEN obs ELSE Append(obs, cb)

\* list.append(callback)
ConnectList(obs, cb) == Append(obs, cb)

\* assertions.assert_is_callable_and_has_first_param_sender(callback)
assert_is_callable_and_has_first_param_sender(cb) ==
    IF ~IsCallable(cb) THEN "TypeError"
    ELSE IF ~HasFirstParamSender(cb) THEN "ValueError" ELSE "none"

\* assertions.assert_is_callable_and_accepts_kwargs(callback)
assert_is_callable_and_accepts_kwargs(cb) ==
    IF ~IsCallable(cb) THEN "TypeError"
    ELSE IF ~AcceptsKwargs(cb) THEN "ValueError" ELSE "none"

\* Variant: the callback is appended first and checked afterwards.
ConnectResultAppendFirst(obs, cb) ==
    LET e1 == assert_is_callable_and_has_first_param_sender(cb)
        e2 == assert_is_callable_and_accepts_kwargs(cb)
    IN [err |-> IF e1 # "none" THEN e1 ELSE e2, obs |-> ConnectList(obs, cb)]

\* Signal.connect: the two assertions, then the append; an assertion that
\* raises ends the call before the append
ConnectResult(obs, cb) ==
    LET e1 == assert_is_callable_and_has_first_param_sender(cb)
        e2 == assert_is_callable_and_accepts_kwargs(cb)
    IN IF e1 # "none" THEN [err |-> e1, obs |-> obs]
       ELSE IF e2 # "none" THEN [err |-> e2, obs |-> obs]
       ELSE [err |-> "none", obs |-> ConnectList(obs, cb)]

\* Variant: the last occurrence goes.
DisconnectListLast(obs, cb) ==
    IF FirstIndex(obs, cb) = 0 THEN [err |-> "ValueError", obs |-> obs]
    ELSE LET i == CHOOSE k \in 1..Len(obs) :
                      obs[k] = cb /\ \A j \in (k+1)..Len(obs) : obs[j] # cb
         IN [err |-> "none", obs |-> SubSeq(obs, 1, i-1) \o SubSeq(obs, i+1, Len(obs))]

\* Variant: every occurrence goes.
DisconnectListAll(obs, cb) ==
    IF FirstIndex(obs, cb) = 0 THEN [err |-> "ValueError", obs |-> obs]
    ELSE [err |-> "none", obs |-> SelectSeq(obs, LAMBDA x : x # cb)]

\* Variant: a callback that is not in the list is passed over in silence.
DisconnectListQuiet(obs, cb) ==
    LET i == FirstIndex(obs, cb) IN
    IF i = 0 THEN [err |-> "none", obs |-> obs]
    ELSE [err |-> "none", obs |-> SubSeq(obs, 1, i-1) \o SubSeq(obs, i+1, Len(obs))]

\* list.remove(callback): the first occurrence goes, ValueError when there is none
DisconnectList(obs, cb) ==
    LET i == FirstIndex(obs, cb) IN
    IF i = 0 THEN [err |-> "ValueError", obs |-> obs]
    ELSE [err |-> "none", obs |-> SubSeq(obs, 1, i-1) \o SubSeq(obs, i+1, Len(obs))]

\* Variant: the loop runs over the length the list had when emit began.
HasNextSnapshot(e) == e.idx < Len(e.start)

\* for callback in self._observers: the list iterator compares its index with
\* the list's current length at every step
HasNext(e) == e.idx < Len(observers[e.sig])

\* Signal.emit is called: the iterator over self._observers is created
BeginEmit(s, kw, who) ==
    /\ em' = [state |-> "running", caller |-> who, sig |-> s, kw |-> kw,
              idx |-> 0, start |-> observers[s], raised |-> 0]
    /\ calls' = <<>>

\* Variant: emit catches what an observer raises and goes on with the next one.
CallOutcomeSwallowed(raises) == "running"

\* callback(self._sender, **kwargs) stands in no try block: what the observer
\* raises leaves the for loop and emit
CallOutcome(raises) == IF raises THEN "raised" ELSE "running"

\* callback(self._sender, **kwargs)
Invocation(e, cb) == [cb |-> cb, sender |-> Sender(e.sig), kw |-> e.kw]

(***************************************************************************)
(* Text: splitting and parsing.                                            *)
(***************************************************************************)
NL == "\n"
Digits == {"0", "1", "2", "3", "4", "5", "6", "7", "8", "9"}
DigitVal(c) == CASE c = "0" -> 0 [] c = "1" -> 1 [] c = "2" -> 2 [] c = "3" -> 3
                 [] c = "4" -> 4 [] c = "5" -> 5 [] c = "6" -> 6 [] c = "7" -> 7
                 [] c = "8" -> 8 [] c = "9" -> 9

IndexOf(s, c) ==
    IF \E i \in 1..Len(s) : s[i] = c
    THEN CHOOSE i \in 1..Len(s) : s[i] = c /\ \A j \in 1..(i-1) : s[j] # c
    ELSE 0

\* str.split(c) for a one-character separator: n separators give n+1 pieces
RECURSIVE Split(_, _)
Split(s, c) ==
    LET i == IndexOf(s, c) IN
    IF i = 0 THEN <<s>>
    ELSE <<SubSeq(s, 1, i-1)>> \o Split(SubSeq(s, i+1, Len(s)), c)

\* Variant: only the first line of the text is kept.
SplitLinesFirst(d) ==
    LET ls == SelectSeq(Split(d, NL), LAMBDA l : Len(l) > 0)
    IN IF ls = <<>> THEN <<>> ELSE <<ls[1]>>

\* Variant: the lines are handled last to first.
SplitLinesReversed(d) ==
    LET ls == SelectSeq(Split(d, NL), LAMBDA l : Len(l) > 0)
    IN [i \in 1..Len(ls) |-> ls[Len(ls) + 1 - i]]

\* lines = list(filter(lambda line: len(line) > 0, data.split('\n')))
SplitLines(d) == SelectSeq(Split(d, NL), LAMBDA l : Len(l) > 0)

\* Variant: the line is split at the last ">>" (rsplit).
FindSepLast(l) ==
    IF \E i \in 1..(Len(l)-1) : l[i] = ">" /\ l[i+1] = ">"
    THEN CHOOSE i \in 1..(Len(l)-1) :
            /\ l[i] = ">" /\ l[i+1] = ">"
            /\ \A j \in (i+1)..(Len(l)-1) : ~(l[j] = ">" /\ l[j+1] = ">")
    ELSE 0

\* the first position of ">>" in the line, 0 when there is none
FindSep(l) ==
    IF \E i \in 1..(Len(l)-1) : l[i] = ">" /\ l[i+1] = ">"
    THEN CHOOSE i \in 1..(Len(l)-1) :
            /\ l[i] = ">" /\ l[i+1] = ">"
            /\ \A j \in 1..(i-1) : ~(l[j] = ">" /\ l[j+1] = ">")
    ELSE 0

\* line.split('>>', maxsplit=1)
SplitEvent(l) ==
    LET i == FindSep(l) IN
    IF i = 0 THEN <<l>>
    ELSE <<SubSeq(l, 1, i-1), SubSeq(l, i+2, Len(l))>>

\* event_name in signal_for_event
Routed(name) == Len(name) = 1 /\ name[1] \in DOMAIN signal_for_event

\* int(text): an optional sign, then one or more digits
IntBody(s) == IF s # <<>> /\ s[1] = "-" THEN Tail(s) ELSE s
IntOk(s) == IntBody(s) # <<>> /\ \A i \in 1..Len(IntBody(s)) : IntBody(s)[i] \in Digits
RECURSIVE NatOf(_)
NatOf(s) == IF s = <<>> THEN 0
            ELSE 10 * NatOf(SubSeq(s, 1, Len(s)-1)) + DigitVal(s[Len(s)])
IntOf(s) == IF s[1] = "-" THEN 0 - NatOf(Tail(s)) ELSE NatOf(s)

\* Variant: "special" is given to int() like any other text.
WorkspaceIdNoSentinel(p) ==
    IF IntOk(p) THEN [ok |-> TRUE, val |-> IntVal(IntOf(p))]
    ELSE [ok |-> FALSE, val |-> NoneVal]

\* int(event_data) if event_data != 'special' else -99
WorkspaceId(p) ==
    IF p = <<"special">> THEN [ok |-> TRUE, val |-> IntVal(-99)]
    ELSE IF IntOk(p) THEN [ok |-> TRUE, val |-> IntVal(IntOf(p))]
    ELSE [ok |-> FALSE, val |-> NoneVal]

\* Variant: the payload is passed on as it is, "," included.
active_window_addressText(p) == StrVal(p)

\* active_window_address=(None if event_data == ',' else event_data)
active_window_address(p) == IF p = <<",">> THEN NoneVal ELSE StrVal(p)

\* The keyword arguments watch builds for an event; ok is FALSE when building
\* them raises (int() on text that is no integer).
Decode(ev, p) ==
    CASE ev = "openwindow" ->
           [ok |-> TRUE, kw |-> Kw("created_window_address", StrVal(Split(p, ",")[1]))]
      [] ev = "closewindow" ->
           [ok |-> TRUE, kw |-> Kw("destroyed_window_address", StrVal(p))]
      [] ev = "activewindowv2" ->
           [ok |-> TRUE, kw |-> Kw("active_window_address", active_window_address(p))]
      [] ev = "createworkspace" ->
           [ok |-> WorkspaceId(p).ok, kw |-> Kw("created_workspace_id", WorkspaceId(p).val)]
      [] ev = "destroyworkspace" ->
           [ok |-> WorkspaceId(p).ok, kw |-> Kw("destroyed_workspace_id", WorkspaceId(p).val)]
      [] ev = "workspace" ->
           [ok |-> WorkspaceId(p).ok, kw |-> Kw("active_workspace_id", WorkspaceId(p).val)]

(***************************************************************************)
(* The event stream the compositor may send.                               *)
(***************************************************************************)
SEP == <<">", ">">>
LOpen == <<"openwindow">> \o SEP \o <<"0x1234", ",", "1", ",", "firefox", ",", "Mozilla Firefox">>
LClose == <<"closewindow">> \o SEP \o <<"0x1234">>
LCloseSep == <<"closewindow">> \o SEP \o <<"a">> \o SEP \o <<"b">>
LActive == <<"activewindowv2">> \o SEP \o <<"0x1234">>
LActiveNone == <<"activewindowv2">> \o SEP \o <<",">>
LCreate2 == <<"createworkspace">> \o SEP \o <<"2">>
LCreateSpecial == <<"createworkspace">> \o SEP \o <<"special">>
LDestroy12 == <<"destroyworkspace">> \o SEP \o <<"1", "2">>
LDestroySpecial == <<"destroyworkspace">> \o SEP \o <<"special">>
LWorkspaceNeg == <<"workspace">> \o SEP \o <<"-", "3">>
LWorkspaceSpecial == <<"workspace">> \o SEP \o <<"special">>
LWorkspaceName == <<"workspace">> \o SEP \o <<"coding">>
LFuture == <<"futureevent">> \o SEP \o <<"x", ",", "y">>
LNoSep == <<"garbage">>

\* Every line above may come alone in a read.
Catalog == {LOpen, LClose, LCloseSep, LActive, LActiveNone, LCreate2,
            LCreateSpecial, LDestroy12, LDestroySpecial, LWorkspaceNeg,
            LWorkspaceSpecial, LWorkspaceName, LFuture, LNoSep}

\* The lines that come together in reads of two lines and more.
CoreCatalog == {LOpen, LCreate2, LFuture, LNoSep}

RECURSIVE Render(_)
Render(ls) == IF ls = <<>> THEN <<>> ELSE Head(ls) \o <<NL>> \o Render(Tail(ls))

Chunks ==
    {<<>>} \cup {Render(<<l>>) : l \in Catalog}
           \cup UNION {{Render(ls) : ls \in [1..n -> CoreCatalog]} : n \in 2..MaxLines}

\* The lines a read may end in the middle of, at any token but the last.
CutLines == {LDestroy12}
CutAt(l, k) == [data |-> SubSeq(l, 1, k), rest |-> SubSeq(l, k + 1, Len(l))]
CutReads == UNION {{CutAt(l, k) : k \in 1..(Len(l) - 1)} : l \in CutLines}
NoCut == [rest |-> <<>>, resumed |-> FALSE]

(***************************************************************************)
(* Initial state: the Instance is built, no observer is connected and      *)
(* watch has not been called.                                              *)
(***************************************************************************)
Init ==
    /\ observers = [s \in Signals |-> <<>>]
    /\ em = NoFrame
    /\ calls = <<>>
    /\ hist = <<>>
    /\ last = NoLast
    /\ midOps = 0
    /\ pc = "idle"
    /\ data = <<>>
    /\ lines = <<>>
    /\ line = <<>>
    /\ lineNo = 0
    /\ emitted = <<>>
    /\ err = "none"
    /\ closeCount = 0
    /\ lastChan = "none"
    /\ peer = "open"
    /\ cut = NoCut
    /\ stop = FALSE
    /\ requests = <<>>
    /\ dlog = <<>>
    /\ ready = FALSE

(***************************************************************************)
(* Signal.connect, Signal.disconnect                                       *)
(***************************************************************************)
\* Variant: the list is one object that all the signals share.
ConnectShared(s, cb) ==
    observers' = [t \in Signals |-> ConnectResult(observers[t], cb).obs]

\* self._observers is the list made in __init__ for this Signal alone
Connect(s, cb) ==
    observers' = [observers EXCEPT ![s] = ConnectResult(@, cb).obs]

Disconnect(s, cb) ==
    observers' = [observers EXCEPT ![s] = DisconnectList(@, cb).obs]

(***************************************************************************)
(* Signal.emit, one step of its for loop at a time.                        *)
(***************************************************************************)
\* Variant: the loop catches the error and goes on to the next wait().
OnErrorRetry == "wait"

\* try: ... finally: with no except clause, and "while True" inside the try:
\* an exception raised by connect(), wait(), read() or _handle_socket_data
\* leaves the loop for the finally clause
OnError == "finally"

\* Variant: wait() is called once, before the loop, which reads again at once.
AfterLineReads(rest) == IF rest = <<>> THEN "read" ELSE "loop"

\* Where watch goes on after the line of the current iteration: with the next
\* line, or with the wait() of the next turn of "while True".
AfterLine(rest) == IF rest = <<>> THEN "wait" ELSE "loop"

\* Variant: the for loop catches what an emit raises and goes on to the next line.
ObserverRaisedNextLine(rest) == AfterLine(rest)

\* signal.emit(...) stands in no try block of _handle_socket_data, and
\* _handle_socket_data(data) in none but the try/finally of watch: what an
\* observer raises leaves the for loop over the lines and the while loop
ObserverRaised(rest) == OnError

\* The iterator yields the next observer and it is called; it returns or raises.
EmitInvoke ==
    /\ em.state = "running"
    /\ HasNext(em)
    /\ IF em.idx + 1 \in DOMAIN observers[em.sig]
       THEN \E raises \in BOOLEAN :
              /\ calls' = Append(calls, Invocation(em, observers[em.sig][em.idx + 1]))
              /\ em' = [em EXCEPT !.idx = @ + 1,
                                  !.state = CallOutcome(raises),
                                  !.raised = IF raises /\ @ = 0 THEN em.idx + 1 ELSE @]
              /\ IF CallOutcome(raises) = "raised" /\ em.caller = "watch"
                 THEN pc' = ObserverRaised(lines) /\ err' = "ObserverError"
                 ELSE UNCHANGED <<pc, err>>
       ELSE \* an index past the end of the list: IndexError
            /\ em' = [em EXCEPT !.state = "crashed"]
            /\ calls' = calls
            /\ IF em.caller = "watch"
               THEN pc' = OnError /\ err' = "IndexError"
               ELSE UNCHANGED <<pc, err>>
    /\ UNCHANGED <<observers, hist, last, midOps, data, lines, line, lineNo,
                   emitted, closeCount, lastChan, peer, cut, stop, cmdVars, ready>>

\* The iterator is exhausted: emit returns to its caller.
EmitReturn ==
    /\ em.state = "running"
    /\ ~HasNext(em)
    /\ em' = IF em.caller = "watch" THEN NoFrame ELSE [em EXCEPT !.state = "returned"]
    /\ calls' = IF em.caller = "watch" THEN <<>> ELSE calls
    /\ pc' = IF em.caller = "watch" THEN AfterLine(lines) ELSE pc
    /\ UNCHANGED <<observers, hist, last, midOps, data, lines, line,
                   lineNo, emitted, err, closeCount, lastChan, peer, cut, stop, cmdVars, ready>>

(***************************************************************************)
(* SpecSignal: one Signal used through its API, by callers and by its own  *)
(* observers, while an emit may be in flight.                              *)
(***************************************************************************)
ApiSignal == "signal_workspace_created"

ApiConnect(cb) ==
    LET r == ConnectResult(observers[ApiSignal], cb) IN
    /\ pc = "idle"
    /\ r.err = "none" => Len(hist) < MaxOps
    /\ Connect(ApiSignal, cb)
    /\ hist' = IF r.err = "none"
               THEN Append(hist, [op |-> "connect", cb |-> cb]) ELSE hist
    /\ last' = [op |-> "connect", cb |-> cb, err |-> r.err,
                before |-> observers[ApiSignal]]
    /\ midOps' = IF r.err = "none" THEN midOps + 1 ELSE midOps
    /\ UNCHANGED <<em, calls>>
    /\ UNCHANGED watchVars

ApiDisconnect(cb) ==
    LET r == DisconnectList(observers[ApiSignal], cb) IN
    /\ pc = "idle"
    /\ r.err = "none" => Len(hist) < MaxOps
    /\ Disconnect(ApiSignal, cb)
    /\ hist' = IF r.err = "none"
               THEN Append(hist, [op |-> "disconnect", cb |-> cb]) ELSE hist
    /\ last' = [op |-> "disconnect", cb |-> cb, err |-> r.err,
                before |-> observers[ApiSignal]]
    /\ midOps' = IF r.err = "none" THEN midOps + 1 ELSE midOps
    /\ UNCHANGED <<em, calls>>
    /\ UNCHANGED watchVars

ApiEmit(kw) ==
    /\ pc = "idle"
    /\ em.state # "running"
    /\ BeginEmit(ApiSignal, kw, "user")
    /\ midOps' = 0
    /\ UNCHANGED <<observers, hist, last>>
    /\ UNCHANGED watchVars

NextSignal ==
    \/ \E cb \in Callbacks \cup BadCallbacks : ApiConnect(cb)
    \/ \E cb \in Callbacks \cup BadCallbacks : ApiDisconnect(cb)
    \/ \E kw \in FieldBags : ApiEmit(kw)
    \/ EmitInvoke
    \/ EmitReturn

SpecSignal == Init /\ [][NextSignal]_vars

(***************************************************************************)
(* Spec: Instance.watch, with observers connected and disconnected         *)
(* before and while it runs.                                               *)
(***************************************************************************)
Registered == LET RECURSIVE Sum(_)
                  Sum(S) == IF S = {} THEN 0
                            ELSE LET s == CHOOSE x \in S : TRUE
                                 IN Len(observers[s]) + Sum(S \ {s})
              IN Sum(Signals)

\* A connect or disconnect from another thread or from an observer.  One made
\* while watch is blocked in wait() takes effect before the next read is
\* handled, and is taken when wait() has returned; none is taken once watch
\* has failed.
RegPoint == pc \in {"idle", "read", "loop", "emit"}
Handling == pc \in {"loop", "emit"}

RegConnect(s, cb) ==
    /\ RegPoint
    /\ Handling => midOps < MaxMidOps
    /\ Registered < MaxRegs
    /\ Connect(s, cb)
    /\ midOps' = IF Handling THEN midOps + 1 ELSE midOps
    /\ UNCHANGED <<em, calls, hist, last>>
    /\ UNCHANGED watchVars

RegDisconnect(s, cb) ==
    /\ RegPoint
    /\ Handling => midOps < MaxMidOps
    /\ DisconnectList(observers[s], cb).err = "none"
    /\ Disconnect(s, cb)
    /\ midOps' = IF Handling THEN midOps + 1 ELSE midOps
    /\ UNCHANGED <<em, calls, hist, last>>
    /\ UNCHANGED watchVars

\* The compositor sends events while watch is blocked in wait().  (Events
\* sent while a read is handled wake the next wait() as these do.)
Arrive ==
    /\ pc = "wait"
    /\ peer = "open"
    /\ ~ready
    /\ ready' = TRUE
    /\ UNCHANGED <<observers, em, calls, hist, last, midOps, pc, data, lines,
                   line, lineNo, emitted, err, closeCount, lastChan, peer, cut,
                   stop, cmdVars>>

\* The compositor closes its end of the event connection.
PeerClose ==
    /\ pc \in {"wait", "read", "loop", "emit"}
    /\ peer = "open"
    /\ peer' = "closed"
    /\ UNCHANGED <<observers, em, calls, hist, last, midOps, pc, data, lines,
                   line, lineNo, emitted, err, closeCount, lastChan, cut, stop,
                   cmdVars, ready>>

\* try: self.event_socket.connect()
WatchConnect ==
    /\ pc = "idle"
    /\ lastChan' = "connect"
    /\ \E ok \in BOOLEAN :
         IF ok THEN pc' = "wait" /\ err' = err
         ELSE pc' = OnError /\ err' = "ConnectionError"
    /\ UNCHANGED <<observers, em, calls, hist, last, midOps, data, lines,
                   line, lineNo, emitted, closeCount, peer, cut, stop, cmdVars, ready>>

\* event_socket.wait() blocks until there is data to read, and then returns,
\* or until the compositor has closed the connection, and then fails.
WaitReturns(ok) == IF ok THEN peer = "open" /\ ready ELSE peer = "closed"

\* self.event_socket.wait().  _handle_socket_data has returned: its locals and
\* the frame of its last emit are gone, and the histories of the last read
\* start afresh.
Wait ==
    /\ pc = "wait"
    /\ lastChan' = "wait"
    /\ \E ok \in BOOLEAN :
         /\ WaitReturns(ok)
         /\ IF ok THEN pc' = "read" /\ err' = err
            ELSE pc' = OnError /\ err' = "ChannelClosedError"
    /\ peer' = peer
    /\ ready' = FALSE
    /\ data' = <<>> /\ lines' = <<>> /\ line' = <<>> /\ lineNo' = 0
    /\ emitted' = <<>> /\ em' = NoFrame /\ calls' = <<>> /\ midOps' = 0
    /\ cut' = [cut EXCEPT !.resumed = FALSE]
    /\ stop' = stop
    /\ UNCHANGED cmdVars
    /\ UNCHANGED <<observers, hist, last, closeCount>>

\* What event_socket.read() may return next, with the part of a cut line that
\* is left for the read after it: the rest of the line the last read cut, or
\* whole lines, or the beginning of a line.
NextReads ==
    IF cut.rest # <<>> THEN {[data |-> cut.rest \o <<NL>>, rest |-> <<>>]}
    ELSE {[data |-> d, rest |-> <<>>] : d \in Chunks} \cup CutReads

\* data = self.event_socket.read(); _handle_socket_data(data) up to its for loop
Read ==
    /\ pc = "read"
    /\ lastChan' = "read"
    /\ \/ \E r \in NextReads :
            /\ data' = r.data
            /\ cut' = [rest |-> r.rest, resumed |-> cut.rest # <<>>]
            /\ lines' = SplitLines(r.data)
            /\ pc' = AfterLine(SplitLines(r.data))
            /\ err' = err
            /\ peer' = peer
       \/ /\ pc' = OnError
          /\ err' = "ChannelClosedError"
          /\ peer' = "closed"
          /\ UNCHANGED <<data, lines, cut>>
    /\ stop' = stop
    /\ UNCHANGED <<cmdVars, ready>>
    /\ UNCHANGED <<observers, em, calls, hist, last, midOps, line, lineNo,
                   emitted, closeCount>>

\* What one iteration of "for line in lines" does with its line.
Skip == [kind |-> "skip", err |-> "none", sig |-> "", kw |-> NoKw]
Raise(e) == [kind |-> "raise", err |-> e, sig |-> "", kw |-> NoKw]
Emit(s, kw) == [kind |-> "emit", err |-> "none", sig |-> s, kw |-> kw]

\* Variant: the table is indexed without the test, which raises KeyError.
UnroutedRaises == Raise("KeyError")

\* if event_name not in signal_for_event: continue
UnroutedOutcome == Skip

\* Variant: the test is missing, the line is decoded and emitted all the same.
NoObserverDecodes(decoded) == decoded

\* if not signal._observers: continue, which comes before the payload is
\* decoded: what decoding would give plays no part
NoObserverOutcome(decoded) == Skip

\* event_name, event_data = line.split('>>', maxsplit=1) with one piece only:
\* not enough values to unpack
UnpackOutcome == Raise("ValueError")

\* the body of the for loop, up to the call of signal.emit
LineOutcome(l) ==
    LET parts == SplitEvent(l) IN
    IF Len(parts) # 2 THEN UnpackOutcome
    ELSE IF ~Routed(parts[1]) THEN UnroutedOutcome
    ELSE LET dec == Decode(parts[1][1], parts[2])
             decoded == IF dec.ok THEN Emit(signal_for_event[parts[1][1]], dec.kw)
                        ELSE Raise("ValueError")
         IN IF observers[signal_for_event[parts[1][1]]] = <<>>
            THEN NoObserverOutcome(decoded)
            ELSE decoded

\* One iteration of "for line in lines", up to the call of signal.emit.
HandleLine ==
    /\ pc = "loop"
    /\ line' = Head(lines)
    /\ lines' = Tail(lines)
    /\ lineNo' = lineNo + 1
    /\ LET o == LineOutcome(Head(lines)) IN
       CASE o.kind = "raise" ->
              /\ pc' = OnError /\ err' = o.err
              /\ UNCHANGED <<em, calls, emitted>>
         [] o.kind = "skip" ->
              /\ pc' = AfterLine(Tail(lines))
              /\ UNCHANGED <<em, calls, emitted, err>>
         [] o.kind = "emit" ->
              /\ BeginEmit(o.sig, o.kw, "watch")
              /\ emitted' = Append(emitted, [line |-> lineNo + 1, sig |-> o.sig,
                                             kw |-> o.kw])
              /\ pc' = "emit"
              /\ err' = err
    /\ UNCHANGED <<observers, hist, last, midOps, data, closeCount, lastChan,
                   peer, cut, stop, cmdVars, ready>>

\* Variant: the socket is closed in an except clause for the channel's errors.
CloseOnChannelErrors ==
    /\ pc = "finally"
    /\ closeCount' = IF err \in {"ConnectionError", "ChannelClosedError"}
                     THEN closeCount + 1 ELSE closeCount
    /\ lastChan' = IF err \in {"ConnectionError", "ChannelClosedError"}
                   THEN "close" ELSE lastChan
    /\ pc' = "closed"
    /\ UNCHANGED <<observers, em, calls, hist, last, midOps, data, lines,
                   line, lineNo, emitted, err, peer, cut, stop, cmdVars, ready>>

\* finally: self.event_socket.close(); the exception leaves watch
Close ==
    /\ pc = "finally"
    /\ closeCount' = closeCount + 1
    /\ lastChan' = "close"
    /\ pc' = "closed"
    /\ UNCHANGED <<observers, em, calls, hist, last, midOps, data, lines,
                   line, lineNo, emitted, err, peer, cut, stop, cmdVars, ready>>

Next ==
    \/ \E s \in Signals, cb \in Callbacks : RegConnect(s, cb)
    \/ \E s \in Signals, cb \in Callbacks : RegDisconnect(s, cb)
    \/ Arrive
    \/ pc = "wait" /\ PeerClose
    \/ WatchConnect
    \/ Wait
    \/ Read
    \/ HandleLine
    \/ EmitInvoke
    \/ EmitReturn
    \/ Close

Spec == Init /\ [][Next]_vars

(***************************************************************************)
(* SpecLive: watch with observers connected before it is called, the       *)
(* compositor closing the event connection at any moment of the run.       *)
(***************************************************************************)
\* The caller asks, from another thread, for watch to end while watch is
\* blocked in wait().  watch takes no argument and reads no flag, event or
\* second file descriptor: the request changes nothing watch looks at.
StopRequest ==
    /\ pc = "wait"
    /\ ~stop
    /\ stop' = TRUE
    /\ UNCHANGED <<observers, em, calls, hist, last, midOps, pc, data, lines,
                   line, lineNo, emitted, err, closeCount, lastChan, peer, cut,
                   cmdVars, ready>>

NextLive ==
    \/ \E s \in Signals, cb \in Callbacks : pc = "idle" /\ RegConnect(s, cb)
    \/ \E s \in Signals, cb \in Callbacks : pc = "idle" /\ RegDisconnect(s, cb)
    \/ Arrive
    \/ PeerClose
    \/ StopRequest
    \/ WatchConnect
    \/ Wait
    \/ Read
    \/ HandleLine
    \/ EmitInvoke
    \/ EmitReturn
    \/ Close

\* A call of wait() ends, with data to read or with the failure of a closed
\* connection, and the finally clause runs once the exception has reached it.
\* Nothing is assumed of the observers: one that never returns keeps watch
\* from its next wait().
SpecLive == Init /\ [][NextLive]_vars /\ WF_vars(Wait) /\ WF_vars(Close)

(***************************************************************************)
(* SpecDispatch: Instance.dispatch, called with some arguments and given   *)
(* some response by the command socket.                                    *)
(***************************************************************************)
\* What dispatch returns: a str or None.
Text(t) == [none |-> FALSE, text |-> t]
None == [none |-> TRUE, text |-> ""]

DispatchArgs == {<<"cyclenext", "prev">>, <<"workspace", "2">>, <<>>}
Responses == {"ok", "OK", "ok\n", "okok", "", "Invalid dispatcher",
              "Not enough arguments"}

\* Variant: the response is tested for its truth, and for "ok" at its start.
dispatch_errorLoose(dispatch_response) ==
    IF dispatch_response \in {"ok", "ok\n", "okok", ""} THEN None
    ELSE Text(dispatch_response)

\* dispatch_error = dispatch_response if dispatch_response != 'ok' else None
dispatch_error(dispatch_response) ==
    IF dispatch_response # "ok" THEN Text(dispatch_response) ELSE None

\* self.command_socket.send_command('dispatch', flags=['-j'], args=arguments)
DispatchRequest(arguments) ==
    [command |-> "dispatch", flags |-> <<"-j">>, args |-> arguments]

\* dispatch(arguments), the command socket answering with dispatch_response
Dispatch(arguments, dispatch_response) ==
    /\ Len(dlog) < MaxCalls
    /\ requests' = Append(requests, DispatchRequest(arguments))
    /\ dlog' = Append(dlog, [args |-> arguments, sent |-> Len(requests),
                             raised |-> "none", response |-> dispatch_response,
                             result |-> dispatch_error(dispatch_response)])
    /\ UNCHANGED <<observers, em, calls, hist, last, midOps>>
    /\ UNCHANGED <<pc, data, lines, line, lineNo, emitted, err, closeCount,
                   lastChan, peer, cut, stop, ready>>

\* dispatch(arguments), send_command raising: the exception leaves dispatch
DispatchRaises(arguments) ==
    /\ Len(dlog) < MaxCalls
    /\ requests' = Append(requests, DispatchRequest(arguments))
    /\ dlog' = Append(dlog, [args |-> arguments, sent |-> Len(requests),
                             raised |-> "ConnectionError", response |-> "",
                             result |-> None])
    /\ UNCHANGED <<observers, em, calls, hist, last, midOps>>
    /\ UNCHANGED <<pc, data, lines, line, lineNo, emitted, err, closeCount,
                   lastChan, peer, cut, stop, ready>>

NextDispatch ==
    \/ \E a \in DispatchArgs, r \in Responses : Dispatch(a, r)
    \/ \E a \in DispatchArgs : DispatchRaises(a)

SpecDispatch == Init /\ [][NextDispatch]_vars

(***************************************************************************)
(* Properties of Instance.dispatch, checked under SpecDispatch.            *)
(***************************************************************************)
\* C16: a dispatch call that gets a response returns None exactly when the
\* response is the text "ok", and the response itself, unchanged, otherwise;
\* every call sends one request on the command socket, the dispatch command
\* with the flag -j and the call's arguments.
C16_DispatchResult ==
    /\ Len(requests) = Len(dlog)
    /\ \A i \in 1..Len(dlog) :
          /\ dlog[i].sent = i - 1
          /\ requests[i] = [command |-> "dispatch", flags |-> <<"-j">>,
                            args |-> dlog[i].args]
          /\ dlog[i].raised = "none" =>
                /\ (dlog[i].result = None) <=> (dlog[i].response = "ok")
                /\ dlog[i].response # "ok" =>
                      /\ ~dlog[i].result.none
                      /\ dlog[i].result.text = dlog[i].response

C16_Witness ==
    /\ Len(dlog) = 2
    /\ dlog[1].response = "ok" /\ dlog[1].result = None
    /\ dlog[2].response = "" /\ dlog[2].result = Text("")
    /\ Len(requests) = 2

(***************************************************************************)
(* Properties of the Signal, checked under SpecSignal.                     *)
(***************************************************************************)
CbsOf(cs) == [i \in 1..Len(cs) |-> cs[i].cb]
CountIn(s, x) == Cardinality({i \in 1..Len(s) : s[i] = x})
Connects(cb) == Cardinality({i \in 1..Len(hist) : hist[i] = [op |-> "connect", cb |-> cb]})
Disconnects(cb) ==
    Cardinality({i \in 1..Len(hist) : hist[i] = [op |-> "disconnect", cb |-> cb]})

\* An emit called through the API has returned, and no connect or disconnect
\* has taken effect since it began.
CleanEmit == em.state = "returned" /\ em.caller = "user" /\ midOps = 0

\* C1: after connect calls only on the fresh Signal, one emit(fields) invokes
\* the connected observers once each, in the order of their registration,
\* each with the signal's sender and the fields passed to emit.
C1_ConnectsThenEmit ==
    (em.caller = "user" /\ midOps = 0 /\ \A i \in 1..Len(hist) : hist[i].op = "connect") =>
        /\ Len(calls) <= Len(hist)
        /\ \A i \in 1..Len(calls) :
              calls[i] = [cb |-> hist[i].cb, sender |-> "Instance", kw |-> em.kw]
        /\ em.state = "returned" => Len(calls) = Len(hist)

C1_Witness ==
    /\ CleanEmit
    /\ Len(hist) = 3
    /\ \A i \in 1..Len(hist) : hist[i].op = "connect"
    /\ hist[1].cb # hist[2].cb
    /\ Len(calls) = 3

\* The callback's last connect or disconnect that took effect was a disconnect.
LastWasDisconnect(cb) ==
    \E i \in 1..Len(hist) :
        /\ hist[i] = [op |-> "disconnect", cb |-> cb]
        /\ \A j \in (i+1)..Len(hist) : hist[j].cb # cb

\* C2 as claimed: once disconnect(cb) has succeeded and cb has not been
\* connected again, an emit that begins afterwards never invokes cb.
C2_AsClaimed ==
    (em.caller = "user" /\ midOps = 0) =>
        \A i \in 1..Len(calls) : ~LastWasDisconnect(calls[i].cb)

\* C2 (amended): an emit that begins after the connect and disconnect calls
\* invokes cb once for every registration of cb that remains, the number of
\* connect(cb) calls less the number of successful disconnect(cb) calls; it
\* does not invoke cb when none remains.
C2_RemainingRegistrations ==
    CleanEmit =>
        \A cb \in Callbacks : CountIn(CbsOf(calls), cb) = Connects(cb) - Disconnects(cb)

C2_Witness ==
    /\ CleanEmit
    /\ \E cb \in Callbacks :
          /\ LastWasDisconnect(cb)
          /\ Connects(cb) = Disconnects(cb)
          /\ CountIn(CbsOf(calls), cb) = 0
    /\ Len(calls) > 0

\* The last connect/disconnect call was a disconnect of a callback that was
\* not in the list.
FailedDisconnect ==
    /\ last.op = "disconnect"
    /\ \A i \in 1..Len(last.before) : last.before[i] # last.cb

\* C3: disconnect(cb) with cb not in the list fails with ValueError and leaves
\* the list as it was; an emit that follows invokes the same observers in the
\* same order.
C3_FailedDisconnect ==
    FailedDisconnect =>
        /\ last.err = "ValueError"
        /\ observers[ApiSignal] = last.before
        /\ CleanEmit => CbsOf(calls) = last.before

C3_Witness ==
    /\ FailedDisconnect
    /\ last.err = "ValueError"
    /\ CleanEmit
    /\ Len(last.before) = 2
    /\ Len(calls) = 2

\* C4: a callback connected k times and never disconnected is invoked k times
\* by every following emit, at the positions where it is registered.
C4_NoDeduplication ==
    CleanEmit =>
        \A cb \in Callbacks :
            Disconnects(cb) = 0 =>
                /\ CountIn(CbsOf(calls), cb) = Connects(cb)
                /\ Len(calls) = Len(observers[ApiSignal])
                /\ \A i \in 1..Len(calls) :
                      (calls[i].cb = cb) <=> (observers[ApiSignal][i] = cb)

C4_Witness ==
    /\ CleanEmit
    /\ hist = <<[op |-> "connect", cb |-> "f"], [op |-> "connect", cb |-> "g"],
                [op |-> "connect", cb |-> "f"]>>
    /\ CbsOf(calls) = <<"f", "g", "f">>

\* The list the connect and disconnect calls of h give, one after the other,
\* from the empty list.
RECURSIVE Replay(_)
Replay(h) ==
    IF h = <<>> THEN <<>>
    ELSE LET before == Replay(SubSeq(h, 1, Len(h) - 1))
             op == h[Len(h)]
         IN IF op.op = "connect" THEN before \o <<op.cb>>
            ELSE LET k == CHOOSE i \in 1..Len(before) :
                             before[i] = op.cb /\ \A j \in 1..(i-1) : before[j] # op.cb
                 IN [i \in 1..(Len(before) - 1) |->
                        IF i < k THEN before[i] ELSE before[i+1]]

\* C10: with connect and disconnect calls taking effect between the steps of
\* an emit in flight, emit does not crash, and the list is the one the
\* connect and disconnect calls give in the order they took effect.
C10_InterleavedEmit ==
    /\ em.state # "crashed"
    /\ observers[ApiSignal] = Replay(hist)
    /\ \A s \in Signals \ {ApiSignal} : observers[s] = <<>>

C10_Witness ==
    /\ em.state = "returned"
    /\ midOps > 0
    /\ Len(calls) < Len(em.start)
    /\ \E i \in 1..Len(hist) : hist[i].op = "disconnect"

\* C13: connect with an object that is not callable, or that lacks the first
\* parameter sender or the keyword arguments, raises (TypeError for the
\* first, ValueError for the others) and leaves the list as it was; connect
\* with a valid callback appends it; no other object is ever in the list.
C13_InvalidCallbackRefused ==
    /\ last.op = "connect" =>
          /\ last.cb \in BadCallbacks =>
                /\ last.err = IF last.cb = "notCallable" THEN "TypeError"
                              ELSE "ValueError"
                /\ observers[ApiSignal] = last.before
          /\ last.cb \in Callbacks =>
                /\ last.err = "none"
                /\ observers[ApiSignal] = last.before \o <<last.cb>>
    /\ \A i \in 1..Len(observers[ApiSignal]) : observers[ApiSignal][i] \in Callbacks

C13_Witness ==
    /\ last.op = "connect"
    /\ last.cb = "noKwargs"
    /\ last.err = "ValueError"
    /\ Len(last.before) = 2
    /\ observers[ApiSignal] = last.before
    /\ CleanEmit
    /\ Len(calls) = 2

\* C20: a disconnect(cb) that succeeds takes one entry out of the list, the
\* first one that is cb: the list is one shorter, the entries before that
\* position and after it are the ones there were, in their order, so that a
\* later registration of cb stays where it was.
C20_RemovesEarliest ==
    (last.op = "disconnect" /\ last.err = "none") =>
        LET b == last.before
            o == observers[ApiSignal]
        IN /\ \E k \in 1..Len(b) : b[k] = last.cb
           /\ Len(o) = Len(b) - 1
           /\ CountIn(o, last.cb) = CountIn(b, last.cb) - 1
           /\ \A k \in 1..Len(b) :
                 (b[k] = last.cb /\ \A j \in 1..(k-1) : b[j] # last.cb) =>
                     \A i \in 1..Len(o) : o[i] = IF i < k THEN b[i] ELSE b[i+1]

C20_Witness ==
    /\ last = [op |-> "disconnect", cb |-> "g", err |-> "none",
               before |-> <<"g", "f", "g">>]
    /\ observers[ApiSignal] = <<"f", "g">>
    /\ hist[Len(hist)] = [op |-> "disconnect", cb |-> "g"]

\* C11: when the i-th observer raises, emit ends with that error there and
\* then: the observers before it have been invoked once each, in order, it is
\* the last one invoked, none after it is invoked for this emission, and the
\* raise leaves the observer list as it was.
C11_FailFast ==
    /\ [](em.raised # 0 =>
            /\ em.state = "raised"
            /\ em.idx = em.raised
            /\ Len(calls) = em.raised
            /\ midOps = 0 =>
                  /\ observers[em.sig] = em.start
                  /\ \A k \in 1..em.raised : calls[k].cb = em.start[k])
    /\ [][(em.state = "running" /\ em'.raised # 0) => observers' = observers]_vars
    /\ [][em.raised # 0 => (calls' = calls \/ (em'.idx = 0 /\ calls' = <<>>))]_vars

C11_Witness ==
    /\ em.caller = "user"
    /\ em.state = "raised"
    /\ em.raised = 2
    /\ midOps = 0
    /\ em.start = <<"f", "g", "f">>
    /\ CbsOf(calls) = <<"f", "g">>

\* The connect and disconnect calls that took effect since the emit began.
SinceEmit == SubSeq(hist, Len(hist) - midOps + 1, Len(hist))

\* No connect or disconnect of cb has taken effect since the emit began.
Untouched(cb) == \A i \in 1..Len(SinceEmit) : SinceEmit[i].cb # cb

\* C21: an observer that is registered from the beginning of an emit to its
\* end is invoked exactly once by that emit, whatever other observers are
\* connected or disconnected while the emit runs.
C21_RegisteredInvokedOnce ==
    (em.caller = "user" /\ em.state = "returned") =>
        \A cb \in Callbacks :
            (Untouched(cb) /\ CountIn(em.start, cb) = 1)
                => CountIn(CbsOf(calls), cb) = 1

\* C22: an emit makes at most as many invocations as there were observers in
\* the list when it began, also when connect is called while it runs.
C22_BoundedByStart ==
    em.caller = "user" => Len(calls) <= Len(em.start)

(***************************************************************************)
(* Properties of Instance.watch, checked under SpecLive.                   *)
(***************************************************************************)
\* C12: once the compositor has closed the event connection while watch
\* runs, the wait() that watch is in or comes to fails, and watch ends with
\* the socket closed and an error for its caller; no wait() returns and no
\* read follows on the dead connection.
C12_PeerCloseEndsWatch ==
    /\ (peer = "closed" /\ pc = "wait")
          ~> (pc = "closed" /\ closeCount = 1 /\ err = "ChannelClosedError")
    /\ [][(peer = "closed" /\ pc = "wait") => pc' \notin {"read", "loop"}]_vars

C12_Witness ==
    /\ peer = "closed"
    /\ pc = "closed"
    /\ closeCount = 1
    /\ err = "ChannelClosedError"
    /\ lastChan = "close"
    /\ Registered = 2

\* C15: once the caller has asked for watch to end while watch is blocked in
\* wait(), that wait() does not go on to a read: watch leaves it, closes the
\* socket and ends.
C15_StopEndsWatch ==
    /\ (stop /\ pc = "wait") ~> (pc = "closed" /\ closeCount = 1)
    /\ [][(stop /\ pc = "wait") => pc' \in {"wait", "finally", "closed"}]_vars

\* C26: when an observer raises while watch dispatches an event, the observers
\* after it and the lines after that event in the read are not notified, no
\* wait or read follows, the socket is closed once and watch ends with the
\* observer's error.
C26_ObserverRaiseEndsWatch ==
    /\ [](err = "ObserverError" =>
            /\ pc \in {"finally", "closed"}
            /\ em.caller = "watch"
            /\ em.state = "raised"
            /\ Len(calls) = em.raised
            /\ pc = "closed" => (closeCount = 1 /\ lastChan = "close"))
    /\ [][err = "ObserverError" =>
            /\ UNCHANGED <<calls, emitted, em, data, lines, line, lineNo, err>>
            /\ lastChan' \in {lastChan, "close"}]_vars
    /\ (err = "ObserverError")
          ~> (pc = "closed" /\ closeCount = 1 /\ err = "ObserverError")

C26_Witness ==
    /\ pc = "closed"
    /\ err = "ObserverError"
    /\ closeCount = 1
    /\ em.raised = 1
    /\ Len(calls) = 1
    /\ Len(observers[em.sig]) = 2
    /\ Len(emitted) = 1
    /\ lines # <<>>

(***************************************************************************)
(* Properties of Instance.watch, checked under Spec.                       *)
(***************************************************************************)
\* The text of the last read has been handled to its end and watch is about
\* to wait again.
Done == pc = "wait" /\ lastChan = "read" /\ err = "none"

\* The lines of a text in which every line is ended by "\n", by position.
NLAt(d) == {i \in 1..Len(d) : d[i] = NL}
LineCount(d) == Cardinality(NLAt(d))
LineStart(d, k) ==
    IF k = 1 THEN 1
    ELSE 1 + (CHOOSE i \in NLAt(d) : Cardinality({j \in NLAt(d) : j <= i}) = k - 1)
NameAt(d, k) == d[LineStart(d, k)]

\* The signal the Instance documents for each event name.
BoundSignal(name) ==
    CASE name = "openwindow" -> "signal_window_created"
      [] name = "closewindow" -> "signal_window_destroyed"
      [] name = "activewindowv2" -> "signal_active_window_changed"
      [] name = "createworkspace" -> "signal_workspace_created"
      [] name = "destroyworkspace" -> "signal_workspace_destroyed"
      [] name = "workspace" -> "signal_active_workspace_changed"
RoutedNames == {"openwindow", "closewindow", "activewindowv2", "createworkspace",
                "destroyworkspace", "workspace"}

\* The emit started for the k-th line of the last read, if any.
EmittedFor(k) == {i \in 1..Len(emitted) : emitted[i].line = k}

ExampleChunk == Render(<<LOpen, LCreate2>>)

\* The k-th line of such a text, without its "\n".
LineEnd(d, k) == CHOOSE i \in NLAt(d) : Cardinality({j \in NLAt(d) : j <= i}) = k
RefLine(d, k) == SubSeq(d, LineStart(d, k), LineEnd(d, k) - 1)

\* The lines of the stream with a routed name and a payload of the event's form.
ValidRoutedLines == {LOpen, LClose, LCloseSep, LActive, LActiveNone, LCreate2,
                     LCreateSpecial, LDestroy12, LDestroySpecial, LWorkspaceNeg,
                     LWorkspaceSpecial}

\* The last read delivered complete, valid lines with routed names only, and
\* the signal bound to each has observers.
AllRoutedAndObserved ==
    /\ lastChan = "read"
    /\ LineCount(data) > 0
    /\ \A k \in 1..LineCount(data) :
          /\ RefLine(data, k) \in ValidRoutedLines
          /\ observers[BoundSignal(NameAt(data, k))] # <<>>

\* C5: a read of complete lines with routed names, whose signals have
\* observers, gives exactly one emit per line, on the signal bound to the
\* line's name and in the order of the lines, and no other emit; no line
\* raises a decoding error.  "openwindow>>0x1234,...\ncreateworkspace>>2\n"
\* gives one emit of the address "0x1234" and one of the workspace id 2.
C5_OneEmitPerLine ==
    (midOps = 0 /\ AllRoutedAndObserved) =>
        /\ err \in {"none", "ObserverError"}
        /\ Len(emitted) = lineNo
        /\ \A k \in 1..Len(emitted) :
              /\ emitted[k].line = k
              /\ emitted[k].sig = BoundSignal(NameAt(data, k))
        /\ Done => Len(emitted) = LineCount(data)
        /\ (Done /\ data = ExampleChunk)
           => emitted =
                <<[line |-> 1, sig |-> "signal_window_created",
                   kw |-> [key |-> "created_window_address",
                           val |-> StrVal(<<"0x1234">>)]],
                  [line |-> 2, sig |-> "signal_workspace_created",
                   kw |-> [key |-> "created_workspace_id", val |-> IntVal(2)]]>>

C5_Witness ==
    /\ Done /\ midOps = 0
    /\ data = ExampleChunk
    /\ Len(emitted) = 2
    /\ emitted[2].kw.val = IntVal(2)

SpecialLines == {LCreateSpecial, LDestroySpecial, LWorkspaceSpecial}
SpecialKey(l) == CASE l = LCreateSpecial -> "created_workspace_id"
                   [] l = LDestroySpecial -> "destroyed_workspace_id"
                   [] l = LWorkspaceSpecial -> "active_workspace_id"

\* C6: a workspace event with the payload "special", its signal having an
\* observer, starts an emit of the integer -99; it raises no ValueError, so
\* the loop is not left because of it.
C6_SpecialSentinel ==
    line \in SpecialLines =>
        /\ err # "ValueError"
        /\ \A i \in EmittedFor(lineNo) :
              emitted[i].kw = [key |-> SpecialKey(line), val |-> IntVal(-99)]
        /\ (midOps = 0 /\ observers[BoundSignal(line[1])] # <<>>)
              => Cardinality(EmittedFor(lineNo)) = 1

C6_Witness ==
    /\ Done
    /\ line = LDestroySpecial
    /\ Len(emitted) = 1
    /\ emitted[1].kw.val = IntVal(-99)

\* C7: a line with a name that is not routed starts no emit and raises
\* nothing; the loop goes on with the next line of the read, or with the next
\* wait after the last line.
C7_UnknownEventIgnored ==
    /\ line = LFuture =>
          /\ err = "none"
          /\ EmittedFor(lineNo) = {}
          /\ em.state # "running"
          /\ pc = AfterLine(lines)
    /\ (Done /\ midOps = 0 /\ data = Render(<<LFuture, LCreate2>>)
          /\ observers["signal_workspace_created"] # <<>>)
         => emitted = <<[line |-> 2, sig |-> "signal_workspace_created",
                         kw |-> [key |-> "created_workspace_id", val |-> IntVal(2)]]>>

C7_Witness ==
    /\ Done
    /\ data = Render(<<LFuture, LCreate2>>)
    /\ Len(emitted) = 1
    /\ emitted[1].line = 2

\* C14: a read that ends in the middle of an event line starts no emit and
\* raises nothing for the part of the line it holds, nor does the next read,
\* which begins with the rest of the line; watch goes on.
C14_FragmentDiscarded ==
    (lastChan = "read" /\ (cut.rest # <<>> \/ cut.resumed)) =>
        /\ emitted = <<>>
        /\ err = "none"
        /\ pc \in {"loop", "wait"}

\* A line that begins with a routed name and ">>".
RoutedLine(l) == Len(l) >= 3 /\ l[1] \in RoutedNames /\ l[2] = ">" /\ l[3] = ">"

\* C17: the iteration for a line with a routed name whose signal has no
\* observer at that moment starts no emit and raises nothing, whatever the
\* payload, also one that cannot be decoded; the loop goes on with the next
\* line, or with the next wait after the last one.
C17_NoObserverNoDecode ==
    [][(/\ pc = "loop"
        /\ lineNo' = lineNo + 1
        /\ RoutedLine(Head(lines))
        /\ observers[BoundSignal(Head(lines)[1])] = <<>>)
       => /\ emitted' = emitted
          /\ em' = em
          /\ calls' = calls
          /\ err' = "none"
          /\ pc' = AfterLine(lines')]_vars

C17_Witness ==
    /\ Done
    /\ midOps = 0
    /\ line = LWorkspaceName
    /\ observers["signal_active_workspace_changed"] = <<>>
    /\ Registered = 2
    /\ emitted = <<>>

\* The event socket operations that may follow one another.
ChanOrder == {<<"none", "connect">>, <<"connect", "wait">>, <<"wait", "read">>,
              <<"read", "wait">>, <<"connect", "close">>, <<"wait", "close">>,
              <<"read", "close">>}

\* C18: watch calls connect, then wait and read in turns, then close.  A
\* read follows a wait that returned; a wait follows a connect that
\* succeeded or a read whose text has been handled; emits are started, and
\* observers called, after a read and before the next wait only.  wait is
\* the one step that waits for the compositor: at every other step watch can
\* go on at once, and in wait it cannot before data or the closure arrives.
C18_ChannelOrder ==
    /\ [][lastChan' # lastChan =>
            /\ <<lastChan, lastChan'>> \in ChanOrder
            /\ lastChan' \in {"wait", "read"} => err = "none"
            /\ lastChan' = "read" => pc = "read"
            /\ lastChan' = "wait" => (lines = <<>> /\ em.state # "running")]_vars
    /\ [][(emitted' # emitted /\ emitted' # <<>>) =>
            (lastChan = "read" /\ lastChan' = "read")]_vars
    /\ [][(calls' # calls /\ calls' # <<>>) =>
            (lastChan = "read" /\ lastChan' = "read")]_vars
    /\ [](/\ pc = "wait" => (lastChan \in {"connect", "read"} /\ err = "none")
          /\ pc = "read" => (lastChan = "wait" /\ err = "none")
          /\ pc \in {"loop", "emit"} => lastChan = "read"
          /\ em.state = "running" => lastChan = "read"
          /\ pc = "idle" => ENABLED WatchConnect
          /\ pc = "read" => ENABLED Read
          /\ pc = "loop" => lines # <<>>
          /\ pc = "emit" => ENABLED (EmitInvoke \/ EmitReturn)
          /\ pc = "finally" => ENABLED Close
          /\ pc = "wait" => (ENABLED Wait <=> (ready \/ peer = "closed")))

C18_Witness ==
    /\ pc = "wait"
    /\ lastChan = "read"
    /\ Len(emitted) = 2
    /\ peer = "open"
    /\ ~ready
    /\ ~ENABLED Wait

\* C19: the lines of a read are handled in the order of the text, one at a
\* time: the iteration for a line begins when the emit of the line before it
\* has returned, every observer is called for the line of the current
\* iteration, and a new wait and read begin only when the emits of the read
\* before have returned.
C19_StreamOrder ==
    /\ [](/\ (0 < lineNo /\ lineNo <= LineCount(data)) => line = RefLine(data, lineNo)
          /\ \A i, j \in 1..Len(emitted) : i < j => emitted[i].line < emitted[j].line
          /\ \A i \in 1..Len(emitted) : emitted[i].line <= lineNo
          /\ (em.caller = "watch" /\ em.state = "running") =>
                /\ pc = "emit"
                /\ emitted # <<>>
                /\ emitted[Len(emitted)] = [line |-> lineNo, sig |-> em.sig, kw |-> em.kw])
    /\ [][lineNo' = lineNo + 1 => (em.state # "running" /\ em'.idx = 0)]_vars
    /\ [][(calls' # calls /\ calls' # <<>>) =>
            /\ lineNo' = lineNo
            /\ emitted' = emitted
            /\ calls' = Append(calls, calls'[Len(calls')])
            /\ calls'[Len(calls')].kw = emitted[Len(emitted)].kw
            /\ emitted[Len(emitted)].line = lineNo]_vars
    /\ [][(lastChan' # lastChan /\ lastChan' \in {"wait", "read"}) =>
            (em.state # "running" /\ em'.state # "running")]_vars

C19_Witness ==
    /\ data = Render(<<LCreate2, LOpen>>)
    /\ lineNo = 2
    /\ em.state = "running"
    /\ em.sig = "signal_window_created"
    /\ Len(emitted) = 2
    /\ Len(calls) = 1
    /\ Registered = 2

\* C8: a malformed line, one without ">>" or a workspace event whose payload
\* is neither an integer nor "special", is skipped: no error leaves the loop
\* and watch goes on.
C8_MalformedLineSkipped ==
    line \in {LNoSep, LWorkspaceName} =>
        /\ err = "none"
        /\ pc \in {"loop", "wait"}

\* C9: however watch stops, event_socket.close() has been called exactly
\* once, and no wait, read or emit comes after it.
C9_ClosedOnce ==
    /\ [](/\ closeCount <= 1
          /\ pc = "closed" <=> closeCount = 1
          /\ pc = "closed" =>
                /\ lastChan = "close"
                /\ em.state # "running"
                /\ err # "none")
    /\ [][closeCount >= 1 =>
            UNCHANGED <<pc, lastChan, closeCount, em, calls, emitted, err>>]_vars

C9_Witness ==
    /\ pc = "closed"
    /\ closeCount = 1
    /\ err = "ObserverError"
    /\ lastChan = "close"

\* C23: the six routed names are bound to six different signals of the
\* Instance; the emit started for a line is made on the signal bound to the
\* line's name, one emit at most for a line, and the observers it calls are
\* those of that signal, whatever observers the other signals have.
C23_RoutingOneToOne ==
    /\ DOMAIN signal_for_event = RoutedNames
    /\ \A n \in RoutedNames : signal_for_event[n] \in Signals
    /\ \A n1, n2 \in RoutedNames : n1 # n2 => signal_for_event[n1] # signal_for_event[n2]
    /\ \A k \in 1..Len(emitted) :
          LET l == SplitLines(data)[emitted[k].line] IN
          /\ RoutedLine(l)
          /\ emitted[k].sig = BoundSignal(l[1])
    /\ \A k \in 1..lineNo : Cardinality(EmittedFor(k)) <= 1
    /\ em.caller = "watch" =>
          /\ RoutedLine(line)
          /\ em.sig = BoundSignal(line[1])
          /\ midOps = 0 =>
                /\ em.start = observers[BoundSignal(line[1])]
                /\ CbsOf(calls) = SubSeq(em.start, 1, Len(calls))

C23_Witness ==
    /\ pc = "emit"
    /\ midOps = 0
    /\ line = LClose
    /\ em.sig = "signal_window_destroyed"
    /\ observers["signal_window_destroyed"] = <<"g">>
    /\ observers["signal_window_created"] = <<"f">>
    /\ CbsOf(calls) = <<"g">>

\* C24: the observer list of a signal changes only in a step that is a connect
\* or a disconnect on that signal, by the one entry the call adds or takes
\* out; such a step leaves the lists of the other signals as they were and is
\* no step of an emit or of the watch loop, whose steps change no list.
C24_ListFrame ==
    [][observers' # observers =>
         /\ \E s \in Signals :
               /\ \A t \in Signals \ {s} : observers'[t] = observers[t]
               /\ \E cb \in Callbacks :
                     \/ /\ RegConnect(s, cb)
                        /\ observers'[s] = observers[s] \o <<cb>>
                     \/ /\ RegDisconnect(s, cb)
                        /\ Len(observers'[s]) = Len(observers[s]) - 1
                        /\ CountIn(observers'[s], cb) = CountIn(observers[s], cb) - 1
         /\ UNCHANGED <<em, calls>>
         /\ UNCHANGED watchVars]_vars

C24_Witness ==
    /\ pc = "emit"
    /\ midOps = 1
    /\ em.sig = "signal_window_created"
    /\ em.start = <<"f">>
    /\ observers["signal_window_created"] = <<"f">>
    /\ observers["signal_workspace_created"] = <<"g">>
    /\ CbsOf(calls) = <<"f">>

\* C25: a line is split at its first ">>" and nowhere else.  The emit for a
\* line is made on the signal bound to the text before the first ">>", and the
\* payload is all the text after it: "closewindow>>a>>b" is routed as
\* closewindow and its observers get the address "a>>b".
C25_SplitAtFirstSep ==
    /\ (em.caller = "watch" /\ em.state = "running") =>
          \E i \in 1..(Len(line) - 1) :
              /\ line[i] = ">" /\ line[i+1] = ">"
              /\ \A j \in 1..(i-1) : ~(line[j] = ">" /\ line[j+1] = ">")
              /\ SubSeq(line, 1, i-1) = <<line[1]>>
              /\ em.sig = BoundSignal(line[1])
              /\ em.sig = "signal_window_destroyed" =>
                    em.kw = Kw("destroyed_window_address",
                               StrVal(SubSeq(line, i+2, Len(line))))
    /\ (/\ line = LCloseSep
        /\ lastChan = "read"
        /\ midOps = 0
        /\ observers["signal_window_destroyed"] # <<>>)
          => /\ err \in {"none", "ObserverError"}
             /\ Cardinality(EmittedFor(lineNo)) = 1
             /\ \A i \in EmittedFor(lineNo) :
                   emitted[i] = [line |-> lineNo, sig |-> "signal_window_destroyed",
                                 kw |-> Kw("destroyed_window_address",
                                           StrVal(<<"a", ">", ">", "b">>))]

C25_Witness ==
    /\ em.caller = "watch"
    /\ em.state = "running"
    /\ line = LCloseSep
    /\ Len(calls) = 1
    /\ calls[1].kw = Kw("destroyed_window_address", StrVal(<<"a", ">", ">", "b">>))

\* The text of a payload before its first ",".
FirstField(p) ==
    IF \E i \in 1..Len(p) : p[i] = ","
    THEN SubSeq(p, 1, (CHOOSE i \in 1..Len(p) :
                          p[i] = "," /\ \A j \in 1..(i-1) : p[j] # ",") - 1)
    ELSE p

\* C27: the emit for a window event carries one named field: for openwindow
\* created_window_address, the payload up to its first ","; for closewindow
\* destroyed_window_address, the whole payload; for activewindowv2
\* active_window_address, the whole payload, or None when the payload is ",".
C27_WindowDecoding ==
    /\ \A k \in 1..Len(emitted) :
          LET l == SplitLines(data)[emitted[k].line]
              p == SubSeq(l, 4, Len(l))
          IN /\ l[1] = "openwindow" =>
                   emitted[k].kw = [key |-> "created_window_address",
                                    val |-> StrVal(FirstField(p))]
             /\ l[1] = "closewindow" =>
                   emitted[k].kw = [key |-> "destroyed_window_address",
                                    val |-> StrVal(p)]
             /\ l[1] = "activewindowv2" =>
                   emitted[k].kw = [key |-> "active_window_address",
                                    val |-> IF p = <<",">> THEN NoneVal ELSE StrVal(p)]
    /\ \A i \in 1..Len(calls) :
          (em.caller = "watch" /\ line = LActiveNone) =>
              calls[i].kw = [key |-> "active_window_address", val |-> NoneVal]
    /\ (Done /\ midOps = 0 /\ observers["signal_window_created"] # <<>>
           /\ data = Render(<<LOpen>>))
          => emitted = <<[line |-> 1, sig |-> "signal_window_created",
                          kw |-> [key |-> "created_window_address",
                                  val |-> StrVal(<<"0x1234">>)]]>>

C27_Witness ==
    /\ em.caller = "watch"
    /\ em.state = "running"
    /\ line = LActiveNone
    /\ Len(calls) = 2
    /\ calls[2].kw = [key |-> "active_window_address", val |-> NoneVal]

====
